---- MODULE Spec2Model ----
(***************************************************************************)
(* TinyLink backend: the short-code allocation and resolution engine.     *)
(*                                                                         *)
(* The model follows the Express handlers of routes/links.js and index.js  *)
(* and the table definition of migrations/schema.sql.  A handler runs      *)
(* synchronously up to each `await db.query(...)`; the statement is then    *)
(* executed by PostgreSQL as one atomic step, at a moment other requests'   *)
(* statements may precede.  One action models one such step: the statement  *)
(* together with the handler code that runs on its result.                  *)
(*                                                                         *)
(* Strings are sequences of one-character strings, so that the regular     *)
(* expressions and the URL parser are computed character by character.     *)
(***************************************************************************)
EXTENDS Integers, Sequences, FiniteSets, TLC

\* -------------------------------------------------------------------------
\* Bounds of the model.
\* -------------------------------------------------------------------------
\* Number of requests that can be in flight at the same time.
MaxReq == 2
\* Last value the SERIAL sequence of links.id hands out.
MaxId == 2
\* A link is not clicked more often than this.
MaxClicks == 2
\* Last value the database clock now() reaches.
MaxTime == 1

\* -------------------------------------------------------------------------
\* Characters and strings.
\* -------------------------------------------------------------------------
LowerSeq == <<"a","b","c","d","e","f","g","h","i","j","k","l","m",
              "n","o","p","q","r","s","t","u","v","w","x","y","z">>
UpperSeq == <<"A","B","C","D","E","F","G","H","I","J","K","L","M",
              "N","O","P","Q","R","S","T","U","V","W","X","Y","Z">>
Lower == {LowerSeq[i] : i \in 1..Len(LowerSeq)}
Upper == {UpperSeq[i] : i \in 1..Len(UpperSeq)}
Digit == {"0","1","2","3","4","5","6","7","8","9"}
\* \s of a JavaScript regular expression, as far as the inputs use it.
Space == {" "}

\* req.body.code when the JSON body carries no "code" member.
Undefined == <<"undefined">>

\* The nullable column last_clicked holding no value.
NULL == -1

\* -------------------------------------------------------------------------
\* validators.js
\* -------------------------------------------------------------------------
\* /^[A-Za-z0-9]{6,8}$/.test(code)
isValidCode(code) ==
    /\ code # Undefined
    /\ Len(code) >= 6
    /\ Len(code) <= 8
    /\ \A i \in 1..Len(code) : code[i] \in Lower \cup Upper \cup Digit

\* /^[^\s@]+@[^\s@]+\.[^\s@]+$/.test(email)
isValidEmail(email) ==
    \E at \in 1..Len(email) : \E dot \in 1..Len(email) :
        /\ email[at] = "@"
        /\ email[dot] = "."
        /\ 1 < at
        /\ at + 1 < dot
        /\ dot < Len(email)
        /\ \A i \in 1..Len(email) : i # at => email[i] \notin Space \cup {"@"}

\* The URL parser of `new URL(u)`, as far as isValidUrl depends on it: the
\* scheme is the text before the first ":", it starts with a letter and goes
\* on with letters, digits, "+", "-" and "."; it is lower-cased; a special
\* scheme needs a host that is not empty.  Anything else throws.
SchemeEnd(u) ==
    IF \E i \in 1..Len(u) : u[i] = ":"
    THEN CHOOSE i \in 1..Len(u) : u[i] = ":" /\ \A j \in 1..(i-1) : u[j] # ":"
    ELSE 0

LowerCase(ch) ==
    IF ch \in Upper
    THEN LowerSeq[CHOOSE i \in 1..Len(UpperSeq) : UpperSeq[i] = ch]
    ELSE ch

Protocol(u) == [i \in 1..(SchemeEnd(u) - 1) |-> LowerCase(u[i])]

HasScheme(u) ==
    /\ SchemeEnd(u) > 1
    /\ u[1] \in Lower \cup Upper
    /\ \A i \in 1..(SchemeEnd(u) - 1) :
          u[i] \in Lower \cup Upper \cup Digit \cup {"+", "-", "."}

SpecialSchemes == { <<"h","t","t","p">>, <<"h","t","t","p","s">>, <<"f","t","p">>,
                    <<"w","s">>, <<"w","s","s">> }

\* First index after the scheme's ":" and the slashes that follow it.
HostStart(u) ==
    CHOOSE i \in (SchemeEnd(u) + 1)..(Len(u) + 1) :
        /\ \A j \in (SchemeEnd(u) + 1)..(i - 1) : u[j] \in {"/", "\\"}
        /\ (i <= Len(u) => u[i] \notin {"/", "\\"})

HostOk(u) ==
    /\ HostStart(u) <= Len(u)
    /\ u[HostStart(u)] \notin {"?", "#", ":"} \cup Space

UrlParses(u) ==
    /\ HasScheme(u)
    /\ (Protocol(u) \in SpecialSchemes => HostOk(u))

isValidUrl(u) ==
    /\ UrlParses(u)
    /\ Protocol(u) \in { <<"h","t","t","p">>, <<"h","t","t","p","s">> }

\* -------------------------------------------------------------------------
\* Inputs of the requests.
\* -------------------------------------------------------------------------
\* "http://a.io", "https://b.io", "ftp://x", "a.io", "http://"
UrlA == <<"h","t","t","p",":","/","/","a",".","i","o">>
UrlB == <<"h","t","t","p","s",":","/","/","b",".","i","o">>
UrlFtp == <<"f","t","p",":","/","/","x">>
UrlNoScheme == <<"a",".","i","o">>
UrlNoHost == <<"h","t","t","p",":","/","/">>

\* "a@b.co", "a@b"
EmailA == <<"a","@","b",".","c","o">>
EmailNoDot == <<"a","@","b">>

\* "abc123", "ABC123", "", "abc12", "abc-12", "abcdefgh9"
CodeLower == <<"a","b","c","1","2","3">>
CodeUpper == <<"A","B","C","1","2","3">>
CodeEmpty == << >>
CodeShort == <<"a","b","c","1","2">>
CodeDash == <<"a","b","c","-","1","2">>
CodeLong == <<"a","b","c","d","e","f","g","h","9">>

\* What Math.random().toString(36) writes after "0.": a typical value has ten
\* or eleven base-36 digits ("k3x9q2a7fz"); 0.5 is "0.i"; 0 is "0", with
\* nothing after it.
RndTypical == <<"k","3","x","9","q","2","a","7","f","z">>
RndHalf == <<"i">>
RndZero == << >>
GenTypical == <<"k","3","x","9","q","2","a","7">>

\* -------------------------------------------------------------------------
\* State.
\* -------------------------------------------------------------------------
VARIABLES
    links,      \* the rows of table links
    nextId,     \* the next value of the sequence behind links.id
    now,        \* the database clock
    req,        \* per request slot: the handler's inputs, locals and response
    hist,       \* per request slot: what its statements met (history)
    served,     \* per row id: the times of the redirects answered 302 for it
    stale,      \* ids of rows updated by a redirect that had looked up another row
    deleted     \* codes removed by a DELETE and not inserted again since

vars == <<links, nextId, now, req, hist, served, stale, deleted>>

Req == 1..MaxReq

Idle ==
    [op |-> "idle", pc |-> "idle", url |-> << >>, code |-> << >>, email |-> << >>,
     finalCode |-> << >>, target |-> << >>, status |-> 0, error |-> "",
     body |-> << >>, location |-> << >>]

NoHist ==
    [inserts |-> 0, sqlstate |-> "", wasFree |-> FALSE, delHit |-> FALSE,
     seenId |-> 0, seenClicks |-> 0, rowCount |-> 0, hitId |-> 0, hitUrl |-> << >>,
     afterDelete |-> FALSE, failed |-> FALSE]

Init ==
    /\ links = {}
    /\ nextId = 1
    /\ now = 0
    /\ req = [r \in Req |-> Idle]
    /\ hist = [r \in Req |-> NoHist]
    /\ served = [i \in 1..MaxId |-> << >>]
    /\ stale = {}
    /\ deleted = {}

\* -------------------------------------------------------------------------
\* migrations/schema.sql
\* -------------------------------------------------------------------------
\* WHERE code=$1 comparing without regard to letter case.
MatchingNoCase(code) ==
    LET Fold(c) == [i \in 1..Len(c) |-> LowerCase(c[i])]
    IN  {l \in links : Fold(l.code) = Fold(code)}

\* The rows WHERE code=$1 selects.
Matching(code) == {l \in links : l.code = code}

\* code VARCHAR(8)
TooLong(code) == Len(code) > 8

\* The table without its CHECK constraint.
CodeFormatNone(code) == TRUE

\* CONSTRAINT code_format CHECK (code ~ '^[A-Za-z0-9]{6,8}$')
CodeFormat(code) ==
    /\ Len(code) \in 6..8
    /\ \A i \in 1..Len(code) : code[i] \in Lower \cup Upper \cup Digit

\* The table without the UNIQUE constraint on code.
UniqueViolationNone(code) == FALSE

\* code ... UNIQUE
UniqueViolation(code) == Matching(code) # {}

\* The INSERT with the unique index consulted before the row is written by
\* nobody: a duplicate is not noticed.
SqlStateNoUnique(code) ==
    IF TooLong(code) THEN "22001"
    ELSE IF ~CodeFormat(code) THEN "23514"
    ELSE "00000"

\* The SQLSTATE of INSERT INTO links (code, ...): the value is coerced to the
\* column type, then the CHECK constraint is evaluated, then the unique index
\* is updated.
SqlState(code) ==
    IF TooLong(code) THEN "22001"
    ELSE IF ~CodeFormat(code) THEN "23514"
    ELSE IF UniqueViolation(code) THEN "23505"
    ELSE "00000"

\* The row with total_clicks left without a default (it is null).
NewRowNoDefault(code, url, email, t) ==
    [id |-> nextId, code |-> code, target_url |-> url, email |-> email,
     total_clicks |-> NULL, last_clicked |-> NULL, created_at |-> t]

\* The row with last_clicked defaulting to now(), like created_at.
NewRowClicked(code, url, email, t) ==
    [id |-> nextId, code |-> code, target_url |-> url, email |-> email,
     total_clicks |-> 0, last_clicked |-> t, created_at |-> t]

\* The row INSERT stores: id, total_clicks, last_clicked and created_at take
\* their column defaults.
NewRow(code, url, email, t) ==
    [id |-> nextId, code |-> code, target_url |-> url, email |-> email,
     total_clicks |-> 0, last_clicked |-> NULL, created_at |-> t]

\* The table after an INSERT that ended with SQLSTATE st: an INSERT that
\* fails writes nothing.  First the statement as an upsert (ON CONFLICT (code)
\* DO UPDATE SET target_url = EXCLUDED.target_url).
StoredUpsert(st, row) ==
    IF st = "00000" THEN links \cup {row}
    ELSE IF st = "23505"
    THEN {IF l.code = row.code THEN [l EXCEPT !.target_url = row.target_url] ELSE l : l \in links}
    ELSE links

Stored(st, row) == IF st = "00000" THEN links \cup {row} ELSE links

\* The DELETE as a soft delete: the rows stay in the table.
RemainingSoft(gone) == links

\* The table after DELETE FROM links WHERE code=$1 removed the rows `gone`.
Remaining(gone) == links \ gone

\* The UPDATE setting last_clicked alone.
ClickedNoCount(l, t) == [l EXCEPT !.last_clicked = t]

\* SET total_clicks = total_clicks + 1, last_clicked = now()
Clicked(l, t) == [l EXCEPT !.total_clicks = @ + 1, !.last_clicked = t]

\* -------------------------------------------------------------------------
\* routes/links.js: POST /api/links
\* -------------------------------------------------------------------------
\* A new request takes the lowest free slot (the slots are interchangeable).
Lowest(r) == \A s \in Req : s < r => req[s].pc # "idle"

\* Math.random().toString(36).slice(2, 10), rnd being the digits toString(36)
\* writes after "0.".
Generate(rnd) == SubSeq(rnd, 1, IF Len(rnd) < 8 THEN Len(rnd) ELSE 8)

\* `if (finalCode)`: undefined and "" are falsy.
Truthy(code) == code # Undefined /\ code # << >>

Reply(r, st, err) == [req[r] EXCEPT !.pc = "done", !.status = st, !.error = err]

\* The handler up to its INSERT: validation and the choice of finalCode.
CreateLink(r, url, code, email, rnd) ==
    /\ req[r].pc = "idle"
    /\ Lowest(r)
    /\ LET q == [Idle EXCEPT !.op = "create", !.url = url, !.code = code,
                             !.email = email]
           Bad(err) == [q EXCEPT !.pc = "done", !.status = 400, !.error = err]
           Go(fc) == [q EXCEPT !.pc = "insert", !.finalCode = fc]
       IN  IF ~isValidUrl(url)
           THEN /\ req' = [req EXCEPT ![r] = Bad("Invalid URL")]
                /\ hist' = [hist EXCEPT ![r] = NoHist]
           ELSE IF ~isValidEmail(email)
           THEN /\ req' = [req EXCEPT ![r] = Bad("Invalid email")]
                /\ hist' = [hist EXCEPT ![r] = NoHist]
           ELSE IF Truthy(code)
           THEN IF ~isValidCode(code)
                THEN /\ req' = [req EXCEPT ![r] = Bad("Custom code must be 6-8 alphanumeric characters")]
                     /\ hist' = [hist EXCEPT ![r] = NoHist]
                ELSE /\ req' = [req EXCEPT ![r] = Go(code)]
                     /\ hist' = [hist EXCEPT ![r] =
                                   [NoHist EXCEPT !.wasFree = (Matching(code) = {})]]
           ELSE /\ req' = [req EXCEPT ![r] = Go(Generate(rnd))]
                /\ hist' = [hist EXCEPT ![r] =
                              [NoHist EXCEPT !.wasFree = (Matching(Generate(rnd)) = {})]]
    /\ UNCHANGED <<links, nextId, now, served, stale, deleted>>

\* The requests on `code` that have started and whose slot is not yet free.
OnCode(code) ==
    {s \in Req : /\ req[s].pc # "idle"
                 /\ (IF req[s].op = "create" THEN req[s].finalCode ELSE req[s].code) = code}

\* The INSERT statement and the code that runs on its result or its error.
InsertLink(r, t) ==
    /\ req[r].pc = "insert"
    /\ nextId <= MaxId
    /\ t >= now
    /\ LET q == req[r]
           st == SqlState(q.finalCode)
           row == NewRow(q.finalCode, q.url, q.email, t)
       IN  /\ nextId' = nextId + 1
           /\ now' = t
           /\ hist' = [s \in Req |->
                          IF s = r
                          THEN [hist[s] EXCEPT !.inserts = @ + 1, !.sqlstate = st]
                          ELSE IF st = "00000" /\ s \in OnCode(q.finalCode)
                               THEN [hist[s] EXCEPT !.afterDelete = FALSE]
                               ELSE hist[s]]
           /\ links' = Stored(st, row)
           /\ deleted' = IF st = "00000" THEN deleted \ {q.finalCode} ELSE deleted
           /\ IF st = "00000"
              THEN req' = [req EXCEPT ![r] =
                             [q EXCEPT !.pc = "done", !.status = 201, !.body = <<row>>]]
              ELSE IF st = "23505"
              THEN req' = [req EXCEPT ![r] = Reply(r, 409, "Custom code already in use")]
              ELSE req' = [req EXCEPT ![r] = Reply(r, 500, "internal error")]
    /\ UNCHANGED <<served, stale>>

\* -------------------------------------------------------------------------
\* routes/links.js: DELETE /api/links/:code
\* -------------------------------------------------------------------------
DeleteLink(r, code) ==
    /\ req[r].pc = "idle"
    /\ Lowest(r)
    /\ req' = [req EXCEPT ![r] = [Idle EXCEPT !.op = "delete", !.pc = "delete",
                                               !.code = code]]
    /\ hist' = [hist EXCEPT ![r] = NoHist]
    /\ UNCHANGED <<links, nextId, now, served, stale, deleted>>

DeleteExec(r) ==
    /\ req[r].pc = "delete"
    /\ LET gone == Matching(req[r].code)
       IN  /\ links' = Remaining(gone)
           /\ deleted' = IF gone # {} THEN deleted \cup {req[r].code} ELSE deleted
           /\ hist' = [s \in Req |->
                          IF s = r THEN [hist[s] EXCEPT !.rowCount = Cardinality(gone)]
                          ELSE IF gone # {} /\ s \in OnCode(req[r].code)
                               THEN [hist[s] EXCEPT !.delHit = TRUE]
                               ELSE hist[s]]
           /\ IF Cardinality(gone) = 0
              THEN req' = [req EXCEPT ![r] = Reply(r, 404, "not found")]
              ELSE req' = [req EXCEPT ![r] = Reply(r, 204, "")]
           /\ served' = [i \in DOMAIN served |->
                            IF \E l \in gone : l.id = i THEN << >> ELSE served[i]]
           /\ stale' = stale \ {l.id : l \in gone}
    /\ UNCHANGED <<nextId, now>>

\* -------------------------------------------------------------------------
\* index.js: GET /:code
\* -------------------------------------------------------------------------
Redirect(r, code) ==
    /\ req[r].pc = "idle"
    /\ Lowest(r)
    /\ req' = [req EXCEPT ![r] = [Idle EXCEPT !.op = "redirect", !.pc = "select",
                                               !.code = code]]
    /\ hist' = [hist EXCEPT ![r] = [NoHist EXCEPT !.afterDelete = (code \in deleted)]]
    /\ UNCHANGED <<links, nextId, now, served, stale, deleted>>

\* The handler without its rowCount test: it goes on to the UPDATE with
\* whatever the SELECT returned.
RedirectSelectNoTest(r) ==
    /\ req[r].pc = "select"
    /\ LET rows == Matching(req[r].code)
       IN  IF Cardinality(rows) = 0
           THEN /\ req' = [req EXCEPT ![r].pc = "update"]
                /\ hist' = hist
           ELSE \E row \in rows :
                    /\ req' = [req EXCEPT ![r].pc = "update", ![r].target = row.target_url]
                    /\ hist' = [hist EXCEPT ![r].seenId = row.id,
                                            ![r].seenClicks = row.total_clicks]
    /\ UNCHANGED <<links, nextId, now, served, stale, deleted>>

\* SELECT target_url FROM links WHERE code=$1, and the rowCount test.
RedirectSelect(r) ==
    /\ req[r].pc = "select"
    /\ LET rows == Matching(req[r].code)
       IN  IF Cardinality(rows) = 0
           THEN /\ req' = [req EXCEPT ![r] = Reply(r, 404, "Not found")]
                /\ hist' = hist
           ELSE \E row \in rows :
                    /\ req' = [req EXCEPT ![r].pc = "update", ![r].target = row.target_url]
                    /\ hist' = [hist EXCEPT ![r].seenId = row.id,
                                            ![r].seenClicks = row.total_clicks]
    /\ UNCHANGED <<links, nextId, now, served, stale, deleted>>

\* UPDATE links SET ... WHERE code=$1, then res.redirect(302, target).
RedirectUpdate(r, t) ==
    /\ req[r].pc = "update"
    /\ t >= now
    /\ LET hit == Matching(req[r].code)
       IN  /\ \A l \in hit : l.total_clicks < MaxClicks
           /\ now' = t
           /\ links' = (links \ hit) \cup {Clicked(l, t) : l \in hit}
           /\ req' = [req EXCEPT ![r].pc = "done", ![r].status = 302,
                                 ![r].location = req[r].target]
           /\ IF hit = {}
              THEN /\ hist' = hist
                   /\ UNCHANGED <<served, stale>>
              ELSE LET l == CHOOSE x \in hit : TRUE
                   IN  /\ hist' = [hist EXCEPT ![r].rowCount = Cardinality(hit),
                                               ![r].hitId = l.id,
                                               ![r].hitUrl = l.target_url]
                       /\ IF hist[r].seenId = l.id
                          THEN /\ served' = [served EXCEPT ![l.id] = Append(@, t)]
                               /\ stale' = stale
                          ELSE /\ served' = served
                               /\ stale' = stale \cup {l.id}
    /\ UNCHANGED <<nextId, deleted>>

\* -------------------------------------------------------------------------
\* routes/links.js: GET /api/links?email=...
\* -------------------------------------------------------------------------
ListLinks(r, email) ==
    /\ req[r].pc = "idle"
    /\ Lowest(r)
    /\ req' = [req EXCEPT ![r] = [Idle EXCEPT !.op = "list", !.pc = "list",
                                               !.email = email]]
    /\ hist' = [hist EXCEPT ![r] = NoHist]
    /\ UNCHANGED <<links, nextId, now, served, stale, deleted>>

\* ORDER BY created_at DESC: every arrangement of the rows in which created_at
\* never increases (rows of equal created_at come in either order).
Ordered(rows) ==
    {s \in [1..Cardinality(rows) -> rows] :
        /\ \A i \in DOMAIN s : \A j \in DOMAIN s : i # j => s[i] # s[j]
        /\ \A i \in DOMAIN s : \A j \in DOMAIN s :
              i < j => s[i].created_at >= s[j].created_at}

\* `if (email)`: SELECT ... WHERE email = $1, else the SELECT of all links.
Selected(email) ==
    IF Truthy(email) THEN {l \in links : l.email = email} ELSE links

ListExec(r) ==
    /\ req[r].pc = "list"
    /\ \E rows \in Ordered(Selected(req[r].email)) :
           req' = [req EXCEPT ![r].pc = "done", ![r].status = 200, ![r].body = rows]
    /\ UNCHANGED <<links, nextId, now, hist, served, stale, deleted>>

\* -------------------------------------------------------------------------
\* routes/links.js: GET /api/links/:code
\* -------------------------------------------------------------------------
GetLink(r, code) ==
    /\ req[r].pc = "idle"
    /\ Lowest(r)
    /\ req' = [req EXCEPT ![r] = [Idle EXCEPT !.op = "get", !.pc = "get",
                                               !.code = code]]
    /\ hist' = [hist EXCEPT ![r] = NoHist]
    /\ UNCHANGED <<links, nextId, now, served, stale, deleted>>

GetExec(r) ==
    /\ req[r].pc = "get"
    /\ LET rows == Matching(req[r].code)
       IN  IF Cardinality(rows) = 0
           THEN req' = [req EXCEPT ![r] = Reply(r, 404, "not found")]
           ELSE \E row \in rows :
                    req' = [req EXCEPT ![r].pc = "done", ![r].status = 200,
                                       ![r].body = <<row>>]
    /\ UNCHANGED <<links, nextId, now, hist, served, stale, deleted>>

\* -------------------------------------------------------------------------
\* db.query rejects with an error other than 23505 (the connection is lost,
\* the statement times out): the statement has changed nothing.
\* -------------------------------------------------------------------------
\* The catch blocks of routes/links.js: console.error, then 500.
Caught(r) ==
    /\ req' = [req EXCEPT ![r] = Reply(r, 500, "internal error")]
    /\ hist' = [hist EXCEPT ![r].failed = TRUE]
    /\ UNCHANGED <<links, nextId, now, served, stale, deleted>>

InsertFail(r) == req[r].pc = "insert" /\ Caught(r)

DeleteFail(r) == req[r].pc = "delete" /\ Caught(r)

ListFail(r) == req[r].pc = "list" /\ Caught(r)

GetFail(r) == req[r].pc = "get" /\ Caught(r)

\* What becomes of a promise rejected inside the redirect handler, which has
\* no try/catch.  Express 4 does not look at the promise an async handler
\* returns: nothing answers the request ("none").  Express 5 hands the error to
\* its default error handler, which answers 500 with the error's stack
\* ("stack") or, in production, with the status text ("text").
Rejections == {"none", "stack", "text"}

Uncaught(r, out) ==
    /\ out \in Rejections
    /\ req' = [req EXCEPT ![r] =
                  IF out = "none" THEN [req[r] EXCEPT !.pc = "hung"]
                  ELSE IF out = "stack" THEN Reply(r, 500, "error stack")
                  ELSE Reply(r, 500, "Internal Server Error")]
    /\ hist' = [hist EXCEPT ![r].failed = TRUE]
    /\ UNCHANGED <<links, nextId, now, served, stale, deleted>>

RedirectSelectFail(r, out) == req[r].pc = "select" /\ Uncaught(r, out)

RedirectUpdateFail(r, out) == req[r].pc = "update" /\ Uncaught(r, out)

\* -------------------------------------------------------------------------
\* The response has been sent: the slot serves the next request.
\* -------------------------------------------------------------------------
Finish(r) ==
    /\ req[r].pc = "done"
    /\ req' = [req EXCEPT ![r] = Idle]
    /\ hist' = [hist EXCEPT ![r] = NoHist]
    /\ UNCHANGED <<links, nextId, now, served, stale, deleted>>

\* The values now() can return: the clock never runs backwards, and `now` is
\* its last reading.
Time == 0..MaxTime

Body(url, code, email, rnd) == [url |-> url, code |-> code, email |-> email, rnd |-> rnd]

\* Requests in flight together, on the codes callers supply.
ConcBodies ==
    { Body(UrlA, CodeLower, EmailA, RndTypical),
      Body(UrlB, CodeLower, EmailA, RndTypical),
      Body(UrlA, CodeUpper, EmailA, RndTypical) }

ConcCodes == {CodeLower, CodeUpper}

Next ==
    \/ \E r \in Req, b \in ConcBodies : CreateLink(r, b.url, b.code, b.email, b.rnd)
    \/ \E r \in Req, t \in Time : InsertLink(r, t)
    \/ \E r \in Req, code \in ConcCodes : DeleteLink(r, code)
    \/ \E r \in Req : DeleteExec(r)
    \/ \E r \in Req, code \in ConcCodes : Redirect(r, code)
    \/ \E r \in Req : RedirectSelect(r)
    \/ \E r \in Req, t \in Time : RedirectUpdate(r, t)
    \/ \E r \in Req : Finish(r)

Spec == Init /\ [][Next]_vars

\* One request at a time, over well-formed and malformed bodies and over the
\* outcomes of the generator.
SeqBodies ==
    { Body(UrlA, Undefined, EmailA, RndTypical),
      Body(UrlB, Undefined, EmailA, RndTypical),
      Body(UrlA, Undefined, EmailA, RndHalf),
      Body(UrlA, Undefined, EmailA, RndZero),
      Body(UrlA, CodeEmpty, EmailA, RndTypical),
      Body(UrlA, CodeLower, EmailA, RndTypical),
      Body(UrlB, CodeLower, EmailA, RndTypical),
      Body(UrlA, CodeShort, EmailA, RndTypical),
      Body(UrlA, CodeDash, EmailA, RndTypical),
      Body(UrlA, CodeLong, EmailA, RndTypical),
      Body(UrlFtp, CodeLower, EmailA, RndTypical),
      Body(UrlNoScheme, Undefined, EmailA, RndTypical),
      Body(UrlNoHost, CodeLower, EmailA, RndTypical),
      Body(UrlA, CodeLower, EmailNoDot, RndTypical),
      Body(UrlFtp, CodeDash, EmailNoDot, RndTypical) }

SeqCodes == {CodeLower, GenTypical}

NextSeq ==
    \/ \E b \in SeqBodies : CreateLink(1, b.url, b.code, b.email, b.rnd)
    \/ \E t \in Time : InsertLink(1, t)
    \/ \E code \in SeqCodes : DeleteLink(1, code)
    \/ DeleteExec(1)
    \/ \E code \in SeqCodes : Redirect(1, code)
    \/ RedirectSelect(1)
    \/ \E t \in Time : RedirectUpdate(1, t)
    \/ Finish(1)

SpecSeq == Init /\ [][NextSeq]_vars

\* "c@d.eu"
EmailB == <<"c","@","d",".","e","u">>

\* One request at a time, the links of two owners, the reads included.
ListBodies ==
    { Body(UrlA, CodeLower, EmailA, RndTypical),
      Body(UrlB, CodeUpper, EmailB, RndTypical),
      Body(UrlB, CodeUpper, EmailA, RndTypical) }

ListEmails == {EmailA, EmailB, Undefined, << >>}

NextList ==
    \/ \E b \in ListBodies : CreateLink(1, b.url, b.code, b.email, b.rnd)
    \/ \E t \in Time : InsertLink(1, t)
    \/ \E code \in ConcCodes : DeleteLink(1, code)
    \/ DeleteExec(1)
    \/ \E code \in ConcCodes : Redirect(1, code)
    \/ RedirectSelect(1)
    \/ \E t \in Time : RedirectUpdate(1, t)
    \/ \E email \in ListEmails : ListLinks(1, email)
    \/ ListExec(1)
    \/ \E code \in ConcCodes : GetLink(1, code)
    \/ GetExec(1)
    \/ Finish(1)

SpecList == Init /\ [][NextList]_vars

\* The same requests, any of whose statements may fail.
NextFault ==
    \/ NextList
    \/ InsertFail(1)
    \/ DeleteFail(1)
    \/ ListFail(1)
    \/ GetFail(1)
    \/ \E out \in Rejections : RedirectSelectFail(1, out)
    \/ \E out \in Rejections : RedirectUpdateFail(1, out)

SpecFault == Init /\ [][NextFault]_vars

\* -------------------------------------------------------------------------
\* Properties.
\* -------------------------------------------------------------------------
Done(r, op) == req[r].op = op /\ req[r].pc = "done"

\* C1: no two stored links have the same code, codes being compared
\* character by character (case-sensitively), whatever requests ran and
\* however their statements interleaved.
C1_CodesUnique == \A a \in links : \A b \in links : a.code = b.code => a = b

\* Two links are stored whose codes differ only in letter case.
C1_Witness ==
    \E a \in links : \E b \in links : a.code = CodeLower /\ b.code = CodeUpper

\* The create requests racing for one caller-supplied code: it was free when
\* each of them started and no delete has removed it since.
Racing(r) ==
    /\ req[r].op = "create"
    /\ req[r].pc \in {"insert", "done"}
    /\ Truthy(req[r].code)
    /\ hist[r].wasFree
    /\ ~hist[r].delHit

\* C2: when two create requests race for the same free explicit code, never
\* both are answered 201 and never both 409 without a stored link: one is
\* answered 201 and its link is the one stored, the other 409 (two 409 only
\* when a third racing request stored the link).
C2_OneWinner ==
    \A r1 \in Req : \A r2 \in Req :
        (/\ r1 # r2
         /\ Racing(r1) /\ Racing(r2)
         /\ req[r1].finalCode = req[r2].finalCode
         /\ req[r1].pc = "done" /\ req[r2].pc = "done")
        => LET won == {r \in {r1, r2} : req[r].status = 201}
               lost == {r \in {r1, r2} : req[r].status = 409}
           IN  /\ won \cup lost = {r1, r2}
               /\ Cardinality(won) <= 1
               /\ Matching(req[r1].finalCode) # {}
               /\ \A r \in won : \E l \in links : l.id = req[r].body[1].id
               /\ \A r \in won : req[r].body[1].code = req[r].code

\* Two creates of one code that was free when both started: one 201, one 409.
C2_Witness ==
    \E r1 \in Req : \E r2 \in Req :
        /\ r1 # r2
        /\ Racing(r1) /\ Racing(r2)
        /\ req[r1].finalCode = req[r2].finalCode
        /\ req[r1].pc = "done" /\ req[r1].status = 201
        /\ req[r2].pc = "done" /\ req[r2].status = 409

\* C3: for a stored link whose redirects all ran while it existed, every one
\* of them is answered 302 and total_clicks is the number of those answers -
\* concurrent redirects lose no update - and last_clicked is the time of the
\* latest of them.
C3_NoLostClick ==
    /\ \A l \in links :
          l.id \notin stale =>
             /\ l.total_clicks = Len(served[l.id])
             /\ l.last_clicked =
                  (IF served[l.id] = << >> THEN NULL ELSE served[l.id][Len(served[l.id])])
    /\ \A r \in Req :
          (Done(r, "redirect") /\ hist[r].seenId # 0 /\ ~hist[r].delHit) =>
             /\ req[r].status = 302
             /\ hist[r].hitId = hist[r].seenId
             /\ hist[r].rowCount = 1

\* Two redirects that both looked the link up before either updated it, both
\* answered 302, and the link counts two clicks.
C3_Witness ==
    \E r1 \in Req : \E r2 \in Req : \E l \in links :
        /\ r1 # r2
        /\ Done(r1, "redirect") /\ Done(r2, "redirect")
        /\ req[r1].status = 302 /\ req[r2].status = 302
        /\ hist[r1].seenId = l.id /\ hist[r2].seenId = l.id
        /\ hist[r1].seenClicks = 0 /\ hist[r2].seenClicks = 0
        /\ l.total_clicks = 2
        /\ l.last_clicked # NULL

\* C4: the destination a redirect answers with is the destination of the
\* very row its UPDATE incremented, which is the row its SELECT found (lookup
\* and increment as one atomic step).
C4_AtomicResolve ==
    \A r \in Req :
        (Done(r, "redirect") /\ req[r].status = 302) =>
            /\ hist[r].hitId = hist[r].seenId
            /\ req[r].location = hist[r].hitUrl

\* C5: a redirect answered 302 has incremented exactly one existing link, and
\* a redirect answered 404 has updated none.
C5_ClickLands ==
    \A r \in Req :
        Done(r, "redirect") =>
            /\ req[r].status \in {302, 404}
            /\ (req[r].status = 302 => hist[r].rowCount = 1)
            /\ (req[r].status = 404 => hist[r].rowCount = 0)

\* The lexical contract of a code: 6 to 8 characters, each an ASCII letter or
\* digit.
Contract(code) ==
    /\ Len(code) >= 6 /\ Len(code) <= 8
    /\ \A i \in 1..Len(code) : code[i] \in Lower \cup Upper \cup Digit

\* C6: a create without a code whose generated candidate met a duplicate has
\* tried another candidate: it is not answered 409, and it fails only after
\* more than one INSERT.
C6_RetryOnCollision ==
    \A r \in Req :
        (Done(r, "create") /\ ~Truthy(req[r].code) /\ hist[r].inserts > 0) =>
            /\ req[r].status # 409
            /\ (hist[r].sqlstate = "23505" => hist[r].inserts > 1)

\* C7: a create with a valid url and email and no code is answered 201 with a
\* link whose code meets the contract and was not stored before, with
\* total_clicks 0 and last_clicked null.
C7_GeneratedValid ==
    \A r \in Req :
        (/\ Done(r, "create")
         /\ req[r].code = Undefined
         /\ isValidUrl(req[r].url) /\ isValidEmail(req[r].email))
        => /\ req[r].status = 201
           /\ Contract(req[r].body[1].code)
           /\ hist[r].wasFree
           /\ req[r].body[1].total_clicks = 0
           /\ req[r].body[1].last_clicked = NULL

\* C8: a create that supplies a code failing the contract (the empty string
\* included) is answered 400 and issues no INSERT, and a create answered 201
\* that supplied a code stored the link under exactly that code.
C8_SuppliedCode ==
    \A r \in Req :
        (Done(r, "create") /\ req[r].code # Undefined) =>
            /\ (~Contract(req[r].code) => req[r].status = 400 /\ hist[r].inserts = 0)
            /\ (req[r].status = 201 => req[r].body[1].code = req[r].code)

\* C9: the INSERT of a create with an explicit code that is already stored
\* is its only one, is answered 409 under that very code, and leaves the
\* table as it was.
C9_ConflictNoEffect ==
    [][\A r \in Req :
          (/\ req[r].pc = "insert"
           /\ req'[r].pc = "done"
           /\ Truthy(req[r].code)
           /\ Matching(req[r].finalCode) # {})
          => /\ req'[r].status = 409
             /\ req'[r].finalCode = req[r].code
             /\ req'[r].body = << >>
             /\ hist'[r].inserts = 1
             /\ links' = links]_vars

\* A create answered 409 after one INSERT, the stored link of that code
\* keeping a destination other than the one the request carried.
C9_Witness ==
    \E r \in Req : \E l \in links :
        /\ Done(r, "create") /\ req[r].status = 409
        /\ Truthy(req[r].code)
        /\ hist[r].inserts = 1
        /\ l.code = req[r].code
        /\ l.target_url # req[r].url

\* C10: a create whose url is not an http/https URL, whose email is not
\* valid or whose supplied code is malformed is answered 400 and has issued
\* no INSERT.
C10_ValidateFirst ==
    \A r \in Req :
        (/\ Done(r, "create")
         /\ \/ ~isValidUrl(req[r].url)
            \/ ~isValidEmail(req[r].email)
            \/ (req[r].code # Undefined /\ ~Contract(req[r].code)))
        => /\ req[r].status = 400
           /\ hist[r].inserts = 0

\* C11: the SELECT of a redirect on a code that no stored link has ends the
\* request with 404, and the table is left exactly as it was: no UPDATE (and
\* no other statement) follows it.
C11_MissNoEffect ==
    [][\A r \in Req :
          (/\ req[r].op = "redirect"
           /\ req[r].pc = "select"
           /\ req'[r].pc # "select"
           /\ Matching(req[r].code) = {})
          => /\ req'[r].pc = "done"
             /\ req'[r].status = 404
             /\ req'[r].location = << >>
             /\ links' = links]_vars

\* A redirect answered 404 for one code while a link of the other code,
\* already clicked, is stored.
C11_Witness ==
    \E r \in Req : \E l \in links :
        /\ Done(r, "redirect") /\ req[r].status = 404
        /\ hist[r].seenId = 0 /\ hist[r].rowCount = 0
        /\ Matching(req[r].code) = {}
        /\ l.code # req[r].code
        /\ l.total_clicks > 0

\* C12: a redirect on a code that started after a DELETE had removed that
\* code, no INSERT having stored the code again since, is answered 404 and
\* with no destination.
C12_DeletedIsGone ==
    \A r \in Req :
        (Done(r, "redirect") /\ hist[r].afterDelete) =>
            /\ req[r].status = 404
            /\ req[r].location = << >>

\* A delete answered 204 and, started after it, a redirect on the same code
\* answered 404.
C12_Witness ==
    \E r1 \in Req : \E r2 \in Req :
        /\ Done(r1, "delete") /\ req[r1].status = 204
        /\ Done(r2, "redirect") /\ hist[r2].afterDelete
        /\ req[r2].code = req[r1].code
        /\ req[r2].status = 404

\* C13: the DELETE of a request removes exactly the stored link of its code
\* and nothing else; the request is answered 204 when a link was removed and
\* 404 when none was; and a delete of a code already removed and not stored
\* again is answered 404 and changes nothing (of the deletes of one existing
\* code, one is answered 204 and the others 404).
C13_DeleteOnce ==
    [][\A r \in Req :
          (req[r].pc = "delete" /\ req'[r].pc # "delete")
          => /\ req'[r].pc = "done"
             /\ req'[r].status \in {204, 404}
             /\ (req'[r].status = 204) = (links' # links)
             /\ (req'[r].status = 204) = (Matching(req[r].code) # {})
             /\ links' = {l \in links : l.code # req[r].code}
             /\ Cardinality(links') >= Cardinality(links) - 1
             /\ (req[r].code \in deleted => req'[r].status = 404 /\ links' = links)]_vars

\* Two deletes of one code in flight together: one answered 204 and the other,
\* whose DELETE ran second, 404, the link of the other code still stored.
C13_Witness ==
    \E r1 \in Req : \E r2 \in Req : \E l \in links :
        /\ Done(r1, "delete") /\ req[r1].status = 204
        /\ Done(r2, "delete") /\ req[r2].status = 404
        /\ req[r1].code = req[r2].code
        /\ hist[r2].delHit
        /\ req[r1].code \in deleted
        /\ l.code # req[r1].code

\* The bodies of a generic internal error.
Generic == {"internal error", "Internal Server Error"}

\* C14: a request one of whose statements failed with an error other than
\* 23505 has been answered, with status 500 and a generic body, whatever its
\* operation.
C14_FailureIs500 ==
    \A r \in Req :
        hist[r].failed =>
            /\ req[r].pc = "done"
            /\ req[r].status = 500
            /\ req[r].error \in Generic

\* C15: the body of a list request is made of exactly the stored links whose
\* email is the email of the request, each once, created_at never increasing
\* along it.
C15_ListByOwner ==
    \A r \in Req :
        Done(r, "list") =>
            /\ req[r].status = 200
            /\ {req[r].body[i] : i \in DOMAIN req[r].body}
                  = {l \in links : l.email = req[r].email}
            /\ Len(req[r].body) = Cardinality({l \in links : l.email = req[r].email})
            /\ \A i \in DOMAIN req[r].body : \A j \in DOMAIN req[r].body :
                  i < j => req[r].body[i].created_at >= req[r].body[j].created_at

\* C16: a link enters the table with total_clicks 0; total_clicks is never
\* negative; and from one state to the next the total_clicks of a link that
\* stays in the table is unchanged or greater by exactly 1.
C16_ClicksMonotonic ==
    [][/\ \A l \in links' :
             /\ l.total_clicks >= 0
             /\ (\A k \in links : k.id # l.id) => l.total_clicks = 0
       /\ \A k \in links : \A l \in links' :
             k.id = l.id =>
                l.total_clicks \in {k.total_clicks, k.total_clicks + 1}]_vars

\* A link created after another had been clicked twice: one at two clicks,
\* one at none.
C16_Witness ==
    \E k \in links : \E l \in links :
        /\ k.total_clicks = 2
        /\ l.total_clicks = 0
        /\ l.id > k.id

\* C17: from one state to the next a link that stays in the table keeps its
\* code, target_url, email and created_at, and if anything of it changed then
\* the step is the UPDATE of a redirect on its code.
C17_OnlyRedirectMutates ==
    [][\A k \in links : \A l \in links' :
          k.id = l.id =>
             /\ l.code = k.code
             /\ l.target_url = k.target_url
             /\ l.email = k.email
             /\ l.created_at = k.created_at
             /\ (l # k => \E r \in Req :
                              /\ req[r].op = "redirect"
                              /\ req[r].pc = "update"
                              /\ req'[r].pc = "done"
                              /\ req[r].code = k.code)]_vars

\* A link clicked after its creation time, a create for its code with another
\* destination answered 409, and the link still has its own destination.
C17_Witness ==
    \E r \in Req : \E l \in links :
        /\ Done(r, "create") /\ req[r].status = 409
        /\ req[r].finalCode = l.code
        /\ req[r].url # l.target_url
        /\ l.total_clicks > 0
        /\ l.last_clicked > l.created_at

\* C18: every stored link has last_clicked null exactly when its total_clicks
\* is 0, and a step changes a stored link exactly when it raises its
\* total_clicks (last_clicked is never set without the counter).
C18_NullIffZero ==
    [][/\ \A l \in links' : (l.last_clicked = NULL) = (l.total_clicks = 0)
       /\ \A k \in links : \A l \in links' :
             k.id = l.id => ((l = k) = (l.total_clicks = k.total_clicks))]_vars

\* Two links stored, one never clicked (last_clicked null) and one clicked.
C18_Witness ==
    \E k \in links : \E l \in links :
        /\ k.total_clicks = 0 /\ k.last_clicked = NULL
        /\ l.total_clicks = 1 /\ l.last_clicked # NULL

\* C19: every link in the table has a code meeting the contract, and an
\* INSERT of a code that does not meet it (here a generated one; a supplied
\* one does not get past isValidCode) fails, is answered 500, and leaves the
\* table as it was.
C19_StoreRejects ==
    [][/\ \A l \in links' : Contract(l.code)
       /\ \A r \in Req :
             (/\ req[r].pc = "insert"
              /\ req'[r].pc # "insert"
              /\ ~Contract(req[r].finalCode))
             => /\ links' = links
                /\ req'[r].status = 500
                /\ req'[r].body = << >>]_vars

\* A create whose generated code the CHECK constraint refused, a link created
\* before it still being stored.
C19_Witness ==
    \E r \in Req : \E l \in links :
        /\ Done(r, "create")
        /\ ~Truthy(req[r].code)
        /\ ~Contract(req[r].finalCode)
        /\ hist[r].sqlstate = "23514"
        /\ req[r].status = 500
        /\ Contract(l.code)

\* The code a request is keyed by.
Key(r) == IF req[r].op = "create" THEN req[r].finalCode ELSE req[r].code

\* C20: a statement of a request keyed by code c leaves the stored links of
\* every other code (codes differing in letter case included) as they were;
\* an INSERT adds at most one link, a DELETE removes at most one, and the
\* statements of a redirect neither add nor remove any.
C20_OtherCodesUntouched ==
    [][\A r \in Req :
          (req[r].pc \in {"insert", "delete", "select", "update"} /\ req'[r].pc # req[r].pc)
          => LET n == Cardinality(links)
                 m == Cardinality(links')
             IN  /\ {l \in links' : l.code # Key(r)} = {l \in links : l.code # Key(r)}
                 /\ req[r].op = "create" => m \in {n, n + 1}
                 /\ req[r].op = "delete" => m \in {n - 1, n}
                 /\ req[r].op = "redirect" => m = n]_vars

\* abc123 deleted (204) and a redirect on ABC123 answered 302, ABC123 being
\* stored with its click.
C20_Witness ==
    \E r1 \in Req : \E r2 \in Req : \E l \in links :
        /\ Done(r1, "delete") /\ req[r1].status = 204 /\ req[r1].code = CodeLower
        /\ Done(r2, "redirect") /\ req[r2].status = 302 /\ req[r2].code = CodeUpper
        /\ l.code = CodeUpper
        /\ l.total_clicks = 1
        /\ Matching(CodeLower) = {}

====
